---- MODULE Spec2Model ----
(***************************************************************************)
(* A model of aiowithings: the WithingsClient transport client             *)
(* (src/src/aiowithings/withings.py) and the aggregate_measurements helper *)
(* exported by src/src/aiowithings/__init__.py.                            *)
(*                                                                         *)
(* The client is one dataclass instance.  One domain call is in flight at  *)
(* a time (pc); authenticate() and close() may be called by other          *)
(* coroutines of the same event loop while that call is suspended.         *)
(***************************************************************************)
EXTENDS Integers, Sequences, FiniteSets, TLC

VARIABLES
    session,            \* WithingsClient.session
    request_timeout,    \* WithingsClient.request_timeout
    _token,             \* WithingsClient._token
    _close_session,     \* WithingsClient._close_session
    closed,             \* the sessions on which the client has awaited close()
    num_created,        \* how many times the client has called ClientSession()
    last_auth,          \* the token of the most recent authenticate() call
    closed_with,        \* the session held when close() last completed
    scope,              \* position relative to "async with client:"
    pc,                 \* where the domain call in flight is suspended
    op,                 \* the domain call in flight (or the last one)
    elapsed,            \* time since the call in flight entered its timeout scope (0 when idle)
    sent,               \* session.request() invocations made by that call
    request,            \* the last HTTP request handed to session.request()
    http,               \* what became of that HTTP exchange
    response,           \* the response object received for it
    result,             \* how the domain call ended
    groups,             \* aggregate_measurements: the measurement groups
    measurement_types,  \* aggregate_measurements: the optional allowed types
    aggregated          \* aggregate_measurements: the returned mapping

client_vars == <<session, request_timeout, _token, _close_session, closed,
                 num_created, last_auth, closed_with, scope, pc, op, elapsed,
                 sent, request, http, response, result>>
agg_vars == <<groups, measurement_types, aggregated>>
vars == <<session, request_timeout, _token, _close_session, closed,
          num_created, last_auth, closed_with, scope, pc, op, elapsed,
          sent, request, http, response, result, groups, measurement_types, aggregated>>

----------------------------------------------------------------------------
(* Values *)

\* _token: str | None.  None is the empty sequence, a string s is <<s>>.
None == << >>
Some(s) == <<s>>

\* session: ClientSession | None.  A session is named by who built it.
NoSession == [owner |-> "none", serial |-> 0]
CallerSession == [owner |-> "caller", serial |-> 0]
ClientSession(n) == [owner |-> "client", serial |-> n]

Tokens == {"tokenA", "tokenB"}

\* request_timeout: int = 10
DefaultRequestTimeout == 10
TimeoutValues == {1, DefaultRequestTimeout}

\* How far past its deadline the model follows a suspended call.
MaxOverrun == 1

\* The domain calls and the key of body each of them reads.
DomainCalls == {"get_devices", "get_goals", "get_measurement_since",
                "get_measurement_in_period"}

BodyKey(o) ==
    CASE o = "get_devices" -> "devices"
      [] o = "get_goals" -> "goals"
      [] OTHER -> "measuregrps"

\* A Content-Type header value, as the sequence of its parts; a missing header
\* reads as "" (the empty sequence).
ContentTypes == { << >>, <<"text/html">>, <<"application/json">>,
                  <<"application/json", "; charset=utf-8">> }

\* The status of a JSON envelope.
ErrorStatuses == {"bad_params", "unauthorized", "error_occurred", "bad_state",
                  "rate_limited", "unknown_status"}
Statuses == {"success"} \cup ErrorStatuses

\* A response body: a JSON envelope (has_key: its body holds the key the call
\* reads), or a document that is not JSON.
Envelopes == [json : {TRUE}, status : Statuses, has_key : BOOLEAN]
NotJson == [json |-> FALSE, status |-> "html", has_key |-> FALSE]
Bodies == Envelopes \cup {NotJson}

NoResponse == [content_type |-> << >>, body |-> NotJson, received |-> FALSE]
NoRequest == [Authorization |-> << >>, on_closed |-> FALSE, issued |-> FALSE]

NoResult == [kind |-> "none", args |-> << >>]
Raise(kind, args) == [kind |-> kind, args |-> args]
Return(value) == [kind |-> "return", args |-> <<value>>]

----------------------------------------------------------------------------
(* WithingsClient *)

\* str(token) inside an f-string: None formats as the text "None".
Str(token) == IF token = None THEN "None" ELSE token[1]

\* headers = {..., "Authorization": f"Bearer {self._token}"}
Headers(token) == <<"Bearer", Str(token)>>

\* The same, without the assignment to _close_session.
EnsureSessionNoFlag(s, flag, n) ==
    IF s = NoSession
    THEN [session |-> ClientSession(n + 1), _close_session |-> flag,
          num_created |-> n + 1]
    ELSE [session |-> s, _close_session |-> flag, num_created |-> n]

\* if self.session is None: self.session = ClientSession(); self._close_session = True
EnsureSession(s, flag, n) ==
    IF s = NoSession
    THEN [session |-> ClientSession(n + 1), _close_session |-> TRUE,
          num_created |-> n + 1]
    ELSE [session |-> s, _close_session |-> flag, num_created |-> n]

\* The same, with the ownership test inverted.
CloseSessionInverted(s, flag, cl) ==
    IF s # NoSession /\ ~flag THEN cl \cup {s} ELSE cl

\* if self.session and self._close_session: await self.session.close()
CloseSession(s, flag, cl) ==
    IF s # NoSession /\ flag THEN cl \cup {s} ELSE cl

\* The same, with the test inverted.
IsJsonNegated(content_type) ==
    ~\E i \in 1..Len(content_type) : content_type[i] = "application/json"

\* "application/json" in content_type
IsJson(content_type) ==
    \E i \in 1..Len(content_type) : content_type[i] = "application/json"

\* The same, sending the request again instead of raising.
OnTimeoutRetry(n) ==
    [pc |-> "awaiting_response", sent |-> n + 1, result |-> NoResult]

\* except asyncio.TimeoutError: raise WithingsConnectionError(msg)
OnTimeout(n) ==
    [pc |-> "idle", sent |-> n,
     result |-> Raise("WithingsConnectionError",
                      <<"Timeout occurred while connecting to Withings">>)]

\* raise WithingsError(msg, {"Content-Type": content_type, "response": text})
UnexpectedResponse(content_type, text) ==
    Raise("WithingsError",
          <<"Unexpected response from Withings", content_type, text>>)

\* return cast(dict, await response.json()), then response["body"][key] in the
\* domain call.  json() raises on a document that is not JSON; a missing key
\* raises KeyError.
DomainResult(o, body) ==
    IF ~body.json THEN Raise("JSONDecodeError", << >>)
    ELSE IF ~body.has_key THEN Raise("KeyError", <<BodyKey(o)>>)
    ELSE Return(BodyKey(o))

Suspended == {"awaiting_response", "reading_text", "reading_json"}

\* authenticate(token)
Authenticate(token) ==
    /\ _token' = Some(token)
    /\ last_auth' = Some(token)
    /\ UNCHANGED <<session, request_timeout, _close_session, closed,
                   num_created, closed_with, scope, pc, op, elapsed, sent,
                   request, http, response, result>>
    /\ UNCHANGED agg_vars

\* A domain call runs _request up to its first suspension: the headers are
\* built, a missing session is created, the timeout scope is entered and
\* session.request() is invoked.  A closed session refuses at once
\* (RuntimeError: Session is closed), which _request does not catch.
Request(o) ==
    /\ pc = "idle"
    /\ LET e == EnsureSession(session, _close_session, num_created)
           on_closed == e.session \in closed
       IN /\ session' = e.session
          /\ _close_session' = e._close_session
          /\ num_created' = e.num_created
          /\ request' = [Authorization |-> Headers(_token),
                         on_closed |-> on_closed, issued |-> TRUE]
          /\ IF on_closed
             THEN /\ pc' = "idle"
                  /\ http' = "refused"
                  /\ result' = Raise("RuntimeError", <<"Session is closed">>)
             ELSE /\ pc' = "awaiting_response"
                  /\ http' = "pending"
                  /\ result' = NoResult
    /\ op' = o
    /\ elapsed' = 0
    /\ sent' = 1
    /\ response' = NoResponse
    /\ UNCHANGED <<request_timeout, _token, closed, last_auth, closed_with,
                   scope>>
    /\ UNCHANGED agg_vars

\* Time passes while the call is suspended: up to the deadline, and from
\* there one unit at a time.  Inside the timeout scope the timer fires at the
\* deadline, so time does not pass it there.
Tick ==
    /\ pc \in Suspended
    /\ pc = "awaiting_response" => elapsed < request_timeout
    /\ elapsed < request_timeout + MaxOverrun
    /\ elapsed' = IF elapsed < request_timeout THEN request_timeout
                  ELSE elapsed + 1
    /\ UNCHANGED <<session, request_timeout, _token, _close_session, closed,
                   num_created, last_auth, closed_with, scope, pc, op, sent, request, http,
                   response, result>>
    /\ UNCHANGED agg_vars

\* The deadline passes inside "async with async_timeout.timeout(...)".
Timeout ==
    /\ pc = "awaiting_response"
    /\ elapsed = request_timeout
    /\ LET t == OnTimeout(sent)
       IN /\ pc' = t.pc
          /\ sent' = t.sent
          /\ result' = t.result
          /\ elapsed' = 0
    /\ http' = "timed_out"
    /\ UNCHANGED <<session, request_timeout, _token, _close_session, closed,
                   num_created, last_auth, closed_with, scope, op, request, response>>
    /\ UNCHANGED agg_vars

\* The response arrives in time; _request leaves the timeout scope, reads the
\* Content-Type and starts reading the body as text or as JSON.
Respond(content_type, body) ==
    /\ pc = "awaiting_response"
    /\ elapsed < request_timeout
    /\ session \notin closed
    /\ response' = [content_type |-> content_type, body |-> body,
                    received |-> TRUE]
    /\ pc' = IF IsJson(content_type) THEN "reading_json" ELSE "reading_text"
    /\ http' = "answered"
    /\ UNCHANGED <<session, request_timeout, _token, _close_session, closed,
                   num_created, last_auth, closed_with, scope, op, elapsed, sent, request,
                   result>>
    /\ UNCHANGED agg_vars

\* The connection fails while the call is suspended; _request catches no
\* aiohttp.ClientError.
ConnectionFail ==
    /\ pc \in Suspended
    /\ pc' = "idle"
    /\ elapsed' = 0
    /\ http' = "failed"
    /\ result' = Raise("ClientError", << >>)
    /\ UNCHANGED <<session, request_timeout, _token, _close_session, closed,
                   num_created, last_auth, closed_with, scope, op, sent, request,
                   response>>
    /\ UNCHANGED agg_vars

\* text = await response.text() returns.
BodyText ==
    /\ pc = "reading_text"
    /\ session \notin closed
    /\ pc' = "idle"
    /\ elapsed' = 0
    /\ http' = "body_read"
    /\ result' = UnexpectedResponse(response.content_type, response.body)
    /\ UNCHANGED <<session, request_timeout, _token, _close_session, closed,
                   num_created, last_auth, closed_with, scope, op, sent, request,
                   response>>
    /\ UNCHANGED agg_vars

\* await response.json() returns (or raises) and the domain call finishes.
BodyJson ==
    /\ pc = "reading_json"
    /\ session \notin closed
    /\ pc' = "idle"
    /\ elapsed' = 0
    /\ http' = "body_read"
    /\ result' = DomainResult(op, response.body)
    /\ UNCHANGED <<session, request_timeout, _token, _close_session, closed,
                   num_created, last_auth, closed_with, scope, op, sent, request,
                   response>>
    /\ UNCHANGED agg_vars

\* close()
Close ==
    /\ closed' = CloseSession(session, _close_session, closed)
    /\ closed_with' = session
    /\ UNCHANGED <<session, request_timeout, _token, _close_session,
                   num_created, last_auth, scope, pc, op, elapsed, sent,
                   request, http, response, result>>
    /\ UNCHANGED agg_vars

\* __aenter__: returns self.
AEnter ==
    /\ scope = "outside"
    /\ scope' = "inside"
    /\ UNCHANGED <<session, request_timeout, _token, _close_session, closed,
                   num_created, last_auth, closed_with, pc, op, elapsed, sent,
                   request, http, response, result>>
    /\ UNCHANGED agg_vars

\* __aexit__(*_exc_info): await self.close().  The body of the scope has
\* finished: its last call returned or raised.
AExit ==
    /\ scope = "inside"
    /\ pc = "idle"
    /\ closed' = CloseSession(session, _close_session, closed)
    /\ closed_with' = session
    /\ scope' = "outside"
    /\ UNCHANGED <<session, request_timeout, _token, _close_session,
                   num_created, last_auth, pc, op, elapsed, sent, request,
                   http, response, result>>
    /\ UNCHANGED agg_vars

----------------------------------------------------------------------------
(* aggregate_measurements *)

MeasurementTypes == {"weight", "height"}
Values == {70, 72}
Timestamps == {100, 200}

\* The model's bounds on the aggregator's input.
MaxGroups == 2
MaxMeasurements == 3

\* Step 1: every Measurement paired with its group's measured_at.
GroupEntries(g) ==
    [i \in 1..Len(g.measurements) |->
        [type |-> g.measurements[i].type, value |-> g.measurements[i].value,
         measured_at |-> g.measured_at]]

RECURSIVE Flatten(_)
Flatten(gs) ==
    IF gs = << >> THEN << >>
    ELSE GroupEntries(Head(gs)) \o Flatten(Tail(gs))

\* Step 2: with measurement_types supplied, only the types in it are kept.
Allowed(type, types) == types = None \/ type \in types[1]

\* The same, keeping the earlier entry among equally late ones.
SupersedesStrictly(entry, kept) == entry.measured_at > kept.measured_at

\* Step 3: the later measured_at wins, the later entry among equal ones.
Supersedes(entry, kept) == entry.measured_at >= kept.measured_at

RECURSIVE KeepLatest(_, _)
KeepLatest(entries, best) ==
    IF entries = << >> THEN best
    ELSE LET e == Head(entries)
             take == \/ e.type \notin DOMAIN best
                     \/ Supersedes(e, best[e.type])
             next == IF take
                     THEN [t \in DOMAIN best \cup {e.type} |->
                              IF t = e.type THEN e ELSE best[t]]
                     ELSE best
         IN KeepLatest(Tail(entries), next)

\* Step 4: the mapping type -> value of the winners.
aggregate_measurements(gs, types) ==
    LET kept == SelectSeq(Flatten(gs), LAMBDA e : Allowed(e.type, types))
        best == KeepLatest(kept, [t \in {} |-> 0])
    IN [t \in DOMAIN best |-> best[t].value]

NotAggregated == [done |-> FALSE, mapping |-> [t \in {} |-> 0]]

TotalMeasurements == Len(Flatten(groups))

\* The caller receives one more measurement group.
AddGroup(measured_at) ==
    /\ ~aggregated.done
    /\ Len(groups) < MaxGroups
    /\ groups' = Append(groups, [measured_at |-> measured_at,
                                 measurements |-> << >>])
    /\ UNCHANGED <<measurement_types, aggregated>>
    /\ UNCHANGED client_vars

\* The last group received holds one more measurement.
AddMeasurement(type, value) ==
    /\ ~aggregated.done
    /\ Len(groups) > 0
    /\ TotalMeasurements < MaxMeasurements
    /\ LET n == Len(groups)
       IN groups' = [groups EXCEPT ![n].measurements =
                        Append(@, [type |-> type, value |-> value])]
    /\ UNCHANGED <<measurement_types, aggregated>>
    /\ UNCHANGED client_vars

\* aggregate_measurements(groups, measurement_types)
Aggregate ==
    /\ ~aggregated.done
    /\ aggregated' = [done |-> TRUE,
                      mapping |-> aggregate_measurements(groups,
                                                         measurement_types)]
    /\ UNCHANGED <<groups, measurement_types>>
    /\ UNCHANGED client_vars

----------------------------------------------------------------------------
(* Specifications *)

\* aggregate_measurements is not running.
AggIdle ==
    /\ groups = << >>
    /\ measurement_types = None
    /\ aggregated = NotAggregated

\* The client just constructed, before any call.
Fresh ==
    /\ closed = {}
    /\ num_created = 0
    /\ last_auth = None
    /\ closed_with = NoSession
    /\ scope = "outside"
    /\ pc = "idle"
    /\ op = "none"
    /\ elapsed = 0
    /\ sent = 0
    /\ request = NoRequest
    /\ http = "none"
    /\ response = NoResponse
    /\ result = NoResult

\* WithingsClient(session=..., request_timeout=..., _token=..., _close_session=...)
Init ==
    /\ session \in {NoSession, CallerSession}
    /\ request_timeout \in TimeoutValues
    /\ _token \in {None, Some("tokenA")}
    /\ _close_session \in BOOLEAN
    /\ Fresh
    /\ AggIdle

\* WithingsClient(session=..., request_timeout=...): the private fields keep
\* their defaults, _token = None and _close_session = False.
InitDefault ==
    /\ session \in {NoSession, CallerSession}
    /\ request_timeout \in TimeoutValues
    /\ _token = None
    /\ _close_session = FALSE
    /\ Fresh
    /\ AggIdle

\* WithingsClient(), and the arguments of one aggregate_measurements call.
InitAgg ==
    /\ session = NoSession
    /\ request_timeout = DefaultRequestTimeout
    /\ _token = None
    /\ _close_session = FALSE
    /\ Fresh
    /\ groups = << >>
    /\ measurement_types \in {None} \cup {Some(S) : S \in SUBSET MeasurementTypes}
    /\ aggregated = NotAggregated

Next ==
    \/ \E token \in Tokens : Authenticate(token)
    \/ \E o \in DomainCalls : Request(o)
    \/ Tick
    \/ Timeout
    \/ \E content_type \in ContentTypes, body \in Bodies :
          Respond(content_type, body)
    \/ ConnectionFail
    \/ BodyText
    \/ BodyJson
    \/ Close
    \/ AEnter
    \/ AExit

NextAgg ==
    \/ \E measured_at \in Timestamps : AddGroup(measured_at)
    \/ \E type \in MeasurementTypes, value \in Values :
          AddMeasurement(type, value)
    \/ Aggregate

Spec == Init /\ [][Next]_vars
SpecDefault == InitDefault /\ [][Next]_vars
SpecAgg == InitAgg /\ [][NextAgg]_vars

----------------------------------------------------------------------------
(* Properties *)

\* C1: a session supplied by the caller is never closed by the client,
\* whatever calls were made and however they ended.
C1_CallerSessionNeverClosed == CallerSession \notin closed

\* C2: when close() or __aexit__ has completed on a client holding a session
\* that a request created, that session is closed, however the calls ended.
C2_CreatedSessionClosedOnClose ==
    closed_with.owner = "client" => closed_with \in closed

\* The scope was left after a call that timed out, and the session the client
\* had created is closed.
C2_Witness ==
    /\ closed_with.owner = "client"
    /\ closed_with \in closed
    /\ scope = "outside"
    /\ http = "timed_out"
    /\ result.kind = "WithingsConnectionError"

\* C3: a call whose HTTP request times out ends by raising
\* WithingsConnectionError, and every call hands exactly one request to the
\* session, whatever its outcome.
C3_TimeoutRaisesWithoutRetry ==
    /\ op # "none" => sent = 1
    /\ http = "timed_out" =>
          pc = "idle" /\ result.kind = "WithingsConnectionError"

\* A call has timed out, having issued one request.
C3_Witness ==
    /\ http = "timed_out"
    /\ sent = 1
    /\ result = Raise("WithingsConnectionError",
                      <<"Timeout occurred while connecting to Withings">>)

\* C4: a call is never suspended past the deadline of its timeout scope.
C4_NeverSuspendedPastDeadline ==
    pc \in Suspended => elapsed <= request_timeout

\* The Withings error kind that answers to each API error status.
WithingsErrorFor(status) ==
    CASE status = "bad_params" -> "WithingsInvalidParamsError"
      [] status = "unauthorized" -> "WithingsUnauthorizedError"
      [] status = "error_occurred" -> "WithingsErrorOccurredError"
      [] status = "bad_state" -> "WithingsBadStateError"
      [] status = "rate_limited" -> "WithingsTooManyRequestsError"
      [] status = "unknown_status" -> "WithingsUnknownStatusError"
      [] OTHER -> "none"

\* The call in flight was answered by a JSON envelope with an error status,
\* and has read it.
AnsweredWithApiError ==
    /\ pc = "idle"
    /\ http = "body_read"
    /\ "application/json" \in {response.content_type[i] :
                                  i \in DOMAIN response.content_type}
    /\ response.body.json
    /\ response.body.status \in ErrorStatuses

\* C5: a domain call answered by a JSON envelope with an API error status
\* raises the Withings error of that status: it neither returns data nor
\* raises an untyped error.
C5_ApiErrorRaisesTypedError ==
    AnsweredWithApiError => result.kind = WithingsErrorFor(response.body.status)

\* The positions <<group, index>> of the measurements of the input that pass
\* the optional filter, in iteration order.
Positions ==
    {p \in UNION {{<<g, i>> : i \in 1..Len(groups[g].measurements)} :
                     g \in 1..Len(groups)} :
        \/ measurement_types = None
        \/ groups[p[1]].measurements[p[2]].type \in measurement_types[1]}
TypeAt(p) == groups[p[1]].measurements[p[2]].type
ValueAt(p) == groups[p[1]].measurements[p[2]].value
MeasuredAt(p) == groups[p[1]].measured_at
Earlier(p, q) == p[1] < q[1] \/ (p[1] = q[1] /\ p[2] < q[2])
\* p is the measurement of its type that wins: none of that type is measured
\* later, and none measured at the same time comes after it.
Wins(p) ==
    \A q \in Positions :
        TypeAt(q) = TypeAt(p) =>
            \/ MeasuredAt(q) < MeasuredAt(p)
            \/ MeasuredAt(q) = MeasuredAt(p) /\ ~Earlier(p, q)

\* C6: the keys of the mapping are the types that occur in the input (and are
\* allowed), each with the value of its latest measurement, the last in
\* iteration order among equally late ones; no input gives the empty mapping.
C6_AggregateLatestPerType ==
    aggregated.done =>
        /\ DOMAIN aggregated.mapping = {TypeAt(p) : p \in Positions}
        /\ \A p \in Positions :
              Wins(p) => aggregated.mapping[TypeAt(p)] = ValueAt(p)
        /\ groups = << >> => DOMAIN aggregated.mapping = {}

\* Two groups measured at the same time both hold a weight, with different
\* values, and the mapping holds the later one's.
C6_Witness ==
    /\ aggregated.done
    /\ Len(groups) = 2
    /\ groups[1].measured_at = groups[2].measured_at
    /\ groups[1].measurements = <<[type |-> "weight", value |-> 70]>>
    /\ Len(groups[2].measurements) = 2
    /\ groups[2].measurements[2] = [type |-> "weight", value |-> 72]
    /\ measurement_types = Some({"weight"})
    /\ DOMAIN aggregated.mapping = {"weight"}
    /\ aggregated.mapping["weight"] = 72

\* The Content-Type names JSON.
NamesJson(content_type) ==
    "application/json" \in {content_type[i] : i \in DOMAIN content_type}

\* C7: when the body of a response has been read, a Content-Type without
\* application/json makes the call raise WithingsError with the content type
\* and the text, data is returned only under a Content-Type with
\* application/json, and no step of a call past its start changes session or
\* _close_session.
C7_NonJsonRaisesWithingsError ==
    [][/\ (pc \in {"reading_text", "reading_json"} /\ http' = "body_read") =>
            /\ ~NamesJson(response.content_type) =>
                  result' = Raise("WithingsError",
                                  <<"Unexpected response from Withings",
                                    response.content_type, response.body>>)
            /\ result'.kind = "return" => NamesJson(response.content_type)
       /\ pc \in Suspended => UNCHANGED <<session, _close_session>>]_vars

\* A call answered with text/html has raised WithingsError.
C7_Witness ==
    /\ pc = "idle"
    /\ http = "body_read"
    /\ response.content_type = <<"text/html">>
    /\ result.kind = "WithingsError"
    /\ result.args[2] = <<"text/html">>

\* C8: with default private fields, _close_session holds exactly when the
\* session held was created by the client; the client creates a session only
\* in a request made while it holds none, and at most once.
C8_OwnershipFlagMatchesCreation ==
    /\ [](/\ _close_session <=> session.owner = "client"
          /\ num_created <= 1)
    /\ [][num_created' # num_created =>
             /\ session = NoSession
             /\ pc = "idle"
             /\ request'.issued /\ sent' = 1
             /\ session' = ClientSession(1)]_vars

\* The client created a session, closed it and made another request, without
\* creating a second one.
C8_Witness ==
    /\ num_created = 1
    /\ _close_session
    /\ session = ClientSession(1)
    /\ session \in closed
    /\ request.on_closed

\* C9: every request carries the token of the most recent authenticate()
\* call, and none is sent before a token was set.
C9_RequestsCarryLastToken ==
    [][(pc = "idle" /\ pc' = "awaiting_response") =>
            /\ last_auth # None
            /\ request'.Authorization = <<"Bearer", last_auth[1]>>]_vars

\* C10: no request is handed to a session the client has closed.
C10_NoRequestOnClosedSession == request.issued => ~request.on_closed

====
